---- MODULE Spec2Model ----
(***************************************************************************)
(* Mention resolver of the book page (src/src/app/book/[bookId]/page.tsx): *)
(* the candidate index built by the mentionableItems memo, the plugin      *)
(* factory createRemarkMentionPlugin, and the transformer's two scan loops *)
(* over one text node of the parsed chapter; the clicks on the rendered    *)
(* preview; the profile and note operations of the store                   *)
(* (src/src/stores/projectStore.ts) with the backend they await; and the   *)
(* debounced save of the editor content.                                   *)
(*                                                                         *)
(* Strings are sequences of one-character strings.  Program indices keep   *)
(* the 0-based convention of the source; the helpers convert.              *)
(***************************************************************************)
EXTENDS Integers, Sequences, FiniteSets, Bags, TLC

\* ---------------------------------------------------------------- bounds
MaxLen == 3
MaxProfiles == 2
MaxNotes == 1
MaxClicks == 2
MaxOps == 2
MaxTyping == 3

Alphabet == {"A", "a", " "}
ProfileNamePool == {<<" ">>, <<"A">>, <<"A", " ", "a">>}
NoteNamePool == {<<>>, <<"a">>}

SeqsUpTo(S, n) == UNION {[1..k -> S] : k \in 0..n}

\* ------------------------------------------------------- string helpers
Min(S) == CHOOSE x \in S : \A y \in S : x <= y

\* a substring that ignores its end index (mutant)
SubstringToEnd(s, from, to) == SubSeq(s, from + 1, Len(s))

\* s.substring(from, to) with 0-based, end-exclusive indices
Substring(s, from, to) == SubSeq(s, from + 1, to)

\* s.substring(from)
SubstringFrom(s, from) == SubSeq(s, from + 1, Len(s))

\* s[i] as a one-character string (0-based)
CharAt(s, i) == <<s[i + 1]>>

OccursAt(s, pat, k) ==
    /\ k >= 0
    /\ k + Len(pat) <= Len(s)
    /\ \A j \in 1..Len(pat) : s[k + j] = pat[j]

\* case folding of the modelled characters (used only by a mutant)
Lower(c) ==
    IF c = "A" THEN "a" ELSE IF c = "E" THEN "e" ELSE IF c = "T" THEN "t"
    ELSE IF c = "M" THEN "m" ELSE IF c = "J" THEN "j" ELSE c

OccursAtFold(s, pat, k) ==
    /\ k >= 0
    /\ k + Len(pat) <= Len(s)
    /\ \A j \in 1..Len(pat) : Lower(s[k + j]) = Lower(pat[j])

IndexOfFold(s, pat, from) ==
    LET f == IF from < 0 THEN 0 ELSE IF from > Len(s) THEN Len(s) ELSE from
        hits == {k \in f..Len(s) : OccursAtFold(s, pat, k)}
    IN IF hits = {} THEN -1 ELSE Min(hits)

\* String.prototype.indexOf(pat, from): first occurrence at or after from, -1 if none
IndexOf(s, pat, from) ==
    LET f == IF from < 0 THEN 0 ELSE IF from > Len(s) THEN Len(s) ELSE from
        hits == {k \in f..Len(s) : OccursAt(s, pat, k)}
    IN IF hits = {} THEN -1 ELSE Min(hits)

\* String.prototype.startsWith
StartsWith(s, pat) == OccursAt(s, pat, 0)

IsWhitespace(c) == c \in {" ", "\t", "\n"}

RECURSIVE TrimStart(_)
TrimStart(s) ==
    IF s # <<>> /\ IsWhitespace(Head(s)) THEN TrimStart(Tail(s)) ELSE s

RECURSIVE TrimEnd(_)
TrimEnd(s) ==
    IF s # <<>> /\ IsWhitespace(s[Len(s)]) THEN TrimEnd(SubSeq(s, 1, Len(s) - 1)) ELSE s

\* String.prototype.trim
Trim(s) == TrimEnd(TrimStart(s))

\* /\w/.test(s): a test for a letter, digit or underscore anywhere in s (mutant)
RegexWordClass(s) ==
    \E i \in 1..Len(s) :
        s[i] \in {"A", "E", "J", "M", "T", "a", "b", "d", "e", "f", "h", "i", "l",
                  "m", "n", "o", "r", "s", "t", "u", "w", "x", "0", "1", "_"}

\* /\\w/.test(s): the regular expression literal /\\w/ is an escaped
\* backslash followed by the letter w, so it looks for those two characters
RegexBackslashW(s) ==
    \E i \in 1..(Len(s) - 1) : s[i] = "\\" /\ s[i + 1] = "w"

\* --------------------------------------------------------------- nodes
NoData == [mention |-> FALSE, itemType |-> "", itemId |-> <<>>, itemName |-> <<>>]

TextNode(v) ==
    [type |-> "text", value |-> v, url |-> <<>>, data |-> NoData, title |-> <<>>]

\* an inline code node: a literal node that is not of type 'text'
InlineCode(v) ==
    [type |-> "inlineCode", value |-> v, url |-> <<>>, data |-> NoData, title |-> <<>>]

\* a link node whose tooltip shows the id instead of the name (mutant)
LinkNodeWrongTitle(item) ==
    [type  |-> "link",
     value |-> item.name,
     url   |-> <<"mention://", item.type, "/", item.id>>,
     data  |-> [mention |-> TRUE, itemType |-> item.type,
                itemId |-> item.id, itemName |-> item.name],
     title |-> <<"View ", item.type, ": ", item.id>>]

\* the link node pushed for a match; value is the text of its only child
LinkNode(item) ==
    [type  |-> "link",
     value |-> item.name,
     url   |-> <<"mention://", item.type, "/", item.id>>,
     data  |-> [mention |-> TRUE, itemType |-> item.type,
                itemId |-> item.id, itemName |-> item.name],
     title |-> <<"View ", item.type, ": ", item.name>>]

\* ------------------------------------------------------ candidate index
\* one insertion of a sort that breaks ties the other way round (mutant)
InsertByLengthUnstable(sorted, x) ==
    LET k == Cardinality({i \in 1..Len(sorted) : Len(sorted[i].name) > Len(x.name)})
    IN SubSeq(sorted, 1, k) \o <<x>> \o SubSeq(sorted, k + 1, Len(sorted))

\* Array.prototype.sort is stable: x goes after every element that the
\* comparator (a, b) => b.name.length - a.name.length does not put behind it
InsertByLength(sorted, x) ==
    LET k == Cardinality({i \in 1..Len(sorted) : Len(sorted[i].name) >= Len(x.name)})
    IN SubSeq(sorted, 1, k) \o <<x>> \o SubSeq(sorted, k + 1, Len(sorted))

\* a build that leaves the items in input order (mutant)
SortKeepOrder(items) == items

RECURSIVE SortByLengthDesc(_)
SortByLengthDesc(items) ==
    IF items = <<>> THEN <<>>
    ELSE InsertByLength(SortByLengthDesc(SubSeq(items, 1, Len(items) - 1)),
                        items[Len(items)])

\* filter without the trim (mutant)
NameOkNoTrim(name) == name # <<>>

\* p.name && p.name.trim() !== ''
NameOk(name) == name # <<>> /\ Trim(name) # <<>>

\* a lookup that takes the list of the second book when there is one (mutant)
ListOfOtherBook(map, id) == IF "b2" \in DOMAIN map THEN map["b2"] ELSE <<>>

\* map[id] || []
ListOf(map, id) == IF id \in DOMAIN map THEN map[id] ELSE <<>>

RECURSIVE PushNamed(_, _)
PushNamed(list, kind) ==
    IF list = <<>> THEN <<>>
    ELSE LET rest == PushNamed(SubSeq(list, 1, Len(list) - 1), kind)
             e == list[Len(list)]
         IN IF NameOk(e.name)
            THEN Append(rest, [id |-> e.id, name |-> e.name, type |-> kind])
            ELSE rest

\* the items array before the final sort
CollectItems(book, profilesByBook, notesByBook) ==
    IF book = "none" THEN <<>>
    ELSE PushNamed(ListOf(profilesByBook, book), "character")
         \o PushNamed(ListOf(notesByBook, book), "note")

MentionableItems(book, profilesByBook, notesByBook) ==
    SortByLengthDesc(CollectItems(book, profilesByBook, notesByBook))

\* ---------------------------------------------------------- the scanner
\* insertion at the front instead of the back (mutant)
PushFront(arr, node) == <<node>> \o arr

\* revisedNewChildren.push(node)
Push(arr, node) == Append(arr, node)

\* s[i], which is the string "undefined" once coerced when i is out of range
CharOrUndefined(s, i) ==
    IF i >= 0 /\ i < Len(s) THEN CharAt(s, i)
    ELSE <<"u", "n", "d", "e", "f", "i", "n", "e", "d">>

\* first loop: startsWith plus its two boundary tests
FirstLoopAccepts(txt, item, cur) ==
    LET charBeforeIndex == cur - 1
        charAfterIndex == cur + Len(item.name)
        isStartBoundary == cur = 0 \/ ~RegexBackslashW(CharOrUndefined(txt, charBeforeIndex))
        isEndBoundary == charAfterIndex = Len(txt)
                         \/ ~RegexBackslashW(CharOrUndefined(txt, charAfterIndex))
    IN /\ StartsWith(SubstringFrom(txt, cur), item.name)
       /\ isStartBoundary
       /\ isEndBoundary

\* index in items of foundItem, 0 when the for loop ends without a break
FoundItem(txt, items, cur) ==
    LET ok == {k \in 1..Len(items) : FirstLoopAccepts(txt, items[k], cur)}
    IN IF ok = {} THEN 0 ELSE Min(ok)

startOk(txt, item, startIndex) ==
    LET charBefore == IF startIndex > 0 THEN CharAt(txt, startIndex - 1) ELSE <<" ">>
    IN ~RegexBackslashW(charBefore) \/ ~RegexBackslashW(CharOrUndefined(item.name, 0))

endOk(txt, item, startIndex) ==
    LET endIndex == startIndex + Len(item.name)
        charAfter == IF endIndex < Len(txt) THEN CharAt(txt, endIndex) ELSE <<" ">>
    IN ~RegexBackslashW(charAfter)
       \/ ~RegexBackslashW(CharOrUndefined(item.name, Len(item.name) - 1))

\* revised loop: textSegment.indexOf(item.name) === 0 and both boundary flags
RevisedAccepts(txt, item, cur) ==
    /\ IndexOf(SubstringFrom(txt, cur), item.name, 0) = 0
    /\ startOk(txt, item, cur)
    /\ endOk(txt, item, cur)

\* the last accepted item instead of the first (mutant)
BestMatchLast(txt, items, cur) ==
    LET ok == {k \in 1..Len(items) : RevisedAccepts(txt, items[k], cur)}
    IN IF ok = {} THEN 0 ELSE CHOOSE k \in ok : \A j \in ok : j <= k

\* index in items of bestMatch.item, 0 when bestMatch stays null
BestMatch(txt, items, cur) ==
    LET ok == {k \in 1..Len(items) : RevisedAccepts(txt, items[k], cur)}
    IN IF ok = {} THEN 0 ELSE Min(ok)

\* a skip-ahead that does not move (mutant)
NextPotentialMatchStartStuck(txt, items, cur) == cur

\* skip-ahead that starts its search one character too late (mutant)
NextPotentialMatchStartLate(txt, items, cur) ==
    LET occ == {IndexOf(txt, items[k].name, cur + 2) : k \in 1..Len(items)} \ {-1}
    IN Min(occ \cup {Len(txt)})

\* nextPotentialMatchStart: the nearest occurrence of any item after cur
NextPotentialMatchStart(txt, items, cur) ==
    LET occ == {IndexOf(txt, items[k].name, cur + 1) : k \in 1..Len(items)} \ {-1}
    IN Min(occ \cup {Len(txt)})

\* plain segment that loses its first character (mutant)
PlainTextSegmentShort(txt, items, cur) ==
    Substring(txt, cur + 1, NextPotentialMatchStart(txt, items, cur))

PlainTextSegment(txt, items, cur) ==
    Substring(txt, cur, NextPotentialMatchStart(txt, items, cur))

\* ---------------------------------------------------------------- state
VARIABLES
    currentBook,               \* id of the store's currentBook, "none" for null
    characterProfilesByBookId, \* store slice: book id -> list of profiles
    bookNotesByBookId,         \* store slice: book id -> list of notes
    source,                    \* value of the text node handed to the transformer
    tree,                      \* parent.children of the visited text node
    visitIndex,                \* index of the node the visitor is at (0-based)
    pc,                        \* position of the render pass
    mentionableItems,          \* the memoised candidate index
    plugin,                    \* "none", "noop" or "mentions"
    sortedItems,               \* the plugin's sorted copy
    text,                      \* node.value inside the visitor callback
    newChildren, lastIndex, currentSearchIndex,   \* first loop
    revisedNewChildren, currentTextIndex,         \* revised loop
    inputTree,                 \* parent.children as handed to the transformer
    activated,                 \* the anchors clicked so far, in order
    toasts,                    \* the messages passed to toast.success so far
    db,                        \* backend tables character_profiles and book_notes
    calls,                     \* bag of store operations waiting at an await
    loadingProfiles,           \* store flag
    loadingNotes,              \* store flag
    error,                     \* store field error: "null" or "message"
    nextId,                    \* number the backend gives its next row
    opsStarted,                \* operations called on the store so far
    editorContent,             \* page state editorContent
    chapterContent,            \* currentChapter.content in the store
    isSaving,                  \* page state isSaving
    timeout,                   \* debounce: the timer id it holds, 0 for null
    timers,                    \* the timers set and neither fired nor cleared
    inst,                      \* which debounced function the page holds now
    called,                    \* the calls of debounced functions so far
    invoked,                   \* the timers that fired, in order
    saves                      \* bag of updateChapterContent calls at their await

vars == <<currentBook, characterProfilesByBookId, bookNotesByBookId, source, tree,
          visitIndex, pc, mentionableItems, plugin, sortedItems, text,
          newChildren, lastIndex, currentSearchIndex,
          revisedNewChildren, currentTextIndex, inputTree, activated, toasts,
          db, calls, loadingProfiles, loadingNotes, error, nextId, opsStarted,
          editorContent, chapterContent, isSaving, timeout, timers, inst, called,
          invoked, saves>>

storeVars == <<currentBook, characterProfilesByBookId, bookNotesByBookId, source>>
firstVars == <<newChildren, lastIndex, currentSearchIndex>>
revisedVars == <<revisedNewChildren, currentTextIndex>>
pageVars == <<inputTree, activated, toasts>>
backVars == <<db, calls, loadingProfiles, loadingNotes, error, nextId, opsStarted>>
saveVars == <<editorContent, chapterContent, isSaving, timeout, timers, inst, called,
              invoked, saves>>
ioVars == <<backVars, saveVars>>

MkList(names, tag) ==
    [k \in 1..Len(names) |-> [id |-> <<tag, k>>, book_id |-> "b1", name |-> names[k]]]

\* lists of a second book, which is never the current one
OtherProfiles == <<[id |-> <<"q", 1>>, book_id |-> "b2", name |-> <<"a">>]>>
OtherNotes == <<[id |-> <<"m", 1>>, book_id |-> "b2", name |-> <<"A">>]>>

Str_Ann == <<"A", "n", "n">>
Str_Anna == <<"A", "n", "n", "a">>
Str_AnnM == <<"A", "n", "n", " ", "M">>
Str_Elara == <<"E", "l", "a", "r", "a">>
Str_Thorin == <<"T", "h", "o", "r", "i", "n">>

\* the worked examples of the specification, as (text, profile names, note names)
Examples ==
    { [text |-> Str_Anna \o <<" ", "s", "a", "i", "d", " ", "h", "i">>,
       profiles |-> <<Str_Ann, Str_Anna>>, notes |-> <<>>],
      [text |-> Str_Anna \o <<" ", "s", "a", "i", "d", " ", "h", "i">>,
       profiles |-> <<Str_Anna>>, notes |-> <<Str_Ann>>],
      [text |-> Str_Anna \o <<"b", "e", "l", "l", "e">>,
       profiles |-> <<Str_Ann>>, notes |-> <<>>],
      [text |-> <<"J", "o">> \o Str_Ann,
       profiles |-> <<Str_Ann>>, notes |-> <<>>],
      [text |-> Str_AnnM \o <<"x">>,
       profiles |-> <<Str_AnnM, Str_Ann>>, notes |-> <<>>],
      [text |-> <<"(">> \o Str_Elara \o <<")">>,
       profiles |-> <<Str_Elara>>, notes |-> <<>>],
      [text |-> <<"e", "l", "a", "r", "a">>,
       profiles |-> <<Str_Elara>>, notes |-> <<>>],
      [text |-> <<"a", " ", "A">>,
       profiles |-> <<<<"A">>>>, notes |-> <<<<"A">>>>],
      [text |-> Str_Elara \o <<" ", "m", "e", "t", " ">> \o Str_Thorin
                \o <<" ", "a", "t", " ", "d", "a", "w", "n", ".">>,
       profiles |-> <<Str_Elara, Str_Thorin>>, notes |-> <<>>] }

Texts == SeqsUpTo(Alphabet, MaxLen)

\* a paragraph that holds only the text
Alone(txt) == <<TextNode(txt)>>

\* a paragraph with the text between two inline code nodes that spell a name
Between(txt) == <<InlineCode(<<"A">>), TextNode(txt), InlineCode(Str_Ann)>>

\* the backend holds the rows of both books, and no operation is under way
BackendAtRest ==
    /\ db = [character |-> MkList(<<<<"A">>>>, "p") \o OtherProfiles,
             note |-> MkList(<<<<"a">>>>, "n") \o OtherNotes]
    /\ calls = EmptyBag
    /\ loadingProfiles = FALSE
    /\ loadingNotes = FALSE
    /\ error = "null"
    /\ nextId = 1
    /\ opsStarted = 0
    /\ editorContent = "a"
    /\ chapterContent = "a"
    /\ isSaving = FALSE
    /\ timeout = 0
    /\ timers = {}
    /\ inst = 1
    /\ called = <<>>
    /\ invoked = <<>>
    /\ saves = EmptyBag

InitWith(book, txt, profileNames, noteNames, children) ==
    /\ currentBook = book
    /\ characterProfilesByBookId =
         IF book = "none" THEN <<>>
         ELSE [b \in {"b1", "b2"} |->
                 IF b = "b1" THEN MkList(profileNames, "p") ELSE OtherProfiles]
    /\ bookNotesByBookId =
         IF book = "none" THEN <<>>
         ELSE [b \in {"b1", "b2"} |->
                 IF b = "b1" THEN MkList(noteNames, "n") ELSE OtherNotes]
    /\ source = txt
    /\ tree = children
    /\ inputTree = children
    /\ activated = <<>>
    /\ toasts = <<>>
    /\ BackendAtRest
    /\ visitIndex = 0
    /\ pc = "render"
    /\ mentionableItems = <<>>
    /\ plugin = "none"
    /\ sortedItems = <<>>
    /\ text = <<>>
    /\ newChildren = <<>>
    /\ lastIndex = 0
    /\ currentSearchIndex = 0
    /\ revisedNewChildren = <<>>
    /\ currentTextIndex = 0

\* candidate lists of the runs with a larger tree or with fairness: names
\* that overlap, a lone long name, and blank names that leave the index empty
LiveCandidates ==
    { [profiles |-> << <<"A">>, <<"A", " ", "a">> >>, notes |-> << <<"a">> >>],
      [profiles |-> << <<"A", " ", "a">> >>, notes |-> <<>>],
      [profiles |-> << <<" ">> >>, notes |-> << <<>> >>] }

Init ==
    \/ \E txt \in Texts : InitWith("none", txt, <<>>, <<>>, Alone(txt))
    \/ \E txt \in Texts, ps \in SeqsUpTo(ProfileNamePool, MaxProfiles),
          ns \in SeqsUpTo(NoteNamePool, MaxNotes) :
           InitWith("b1", txt, ps, ns, Alone(txt))
    \/ \E txt \in Texts, c \in LiveCandidates :
           InitWith("b1", txt, c.profiles, c.notes, Between(txt))
    \/ \E ex \in Examples :
           \/ InitWith("b1", ex.text, ex.profiles, ex.notes, Alone(ex.text))
           \/ InitWith("b1", ex.text, ex.profiles, ex.notes, Between(ex.text))

\* -------------------------------------------------------------- actions
\* while (currentSearchIndex < text.length)
FirstLoopContinues(idx, txt) == idx < Len(txt)

\* a loop that also runs at the end of the text (mutant)
RevisedLoopContinuesInclusive(idx, txt) == idx <= Len(txt)

\* while (currentTextIndex < text.length)
RevisedLoopContinues(idx, txt) == idx < Len(txt)

\* the mentionableItems memo
ComputeMentionableItems ==
    /\ pc = "render"
    /\ mentionableItems' =
         MentionableItems(currentBook, characterProfilesByBookId, bookNotesByBookId)
    /\ pc' = "plugin"
    /\ UNCHANGED <<storeVars, pageVars, ioVars, tree, visitIndex, plugin, sortedItems, text,
                   firstVars, revisedVars>>

\* a factory that never takes the short cut (mutant)
IsEmptyListNever(items) == FALSE

\* !itemsToMention || itemsToMention.length === 0
IsEmptyList(items) == Len(items) = 0

\* createRemarkMentionPlugin(mentionableItems)
CreatePlugin ==
    /\ pc = "plugin"
    /\ IF IsEmptyList(mentionableItems)
       THEN plugin' = "noop" /\ UNCHANGED sortedItems
       ELSE plugin' = "mentions" /\ sortedItems' = SortByLengthDesc(mentionableItems)
    /\ pc' = "transform"
    /\ UNCHANGED <<storeVars, pageVars, ioVars, tree, visitIndex, mentionableItems, text,
                   firstVars, revisedVars>>

\* the no-op plugin: (tree) => tree
NoOpTransformer ==
    /\ pc = "transform"
    /\ plugin = "noop"
    /\ pc' = "done"
    /\ UNCHANGED <<storeVars, pageVars, ioVars, tree, visitIndex, mentionableItems, plugin,
                   sortedItems, text, firstVars, revisedVars>>

\* transformer(tree): visit(tree, 'text', ...) starts at the first child
Transformer ==
    /\ pc = "transform"
    /\ plugin = "mentions"
    /\ visitIndex' = 0
    /\ pc' = "visit"
    /\ UNCHANGED <<storeVars, pageVars, ioVars, tree, mentionableItems, plugin, sortedItems, text,
                   firstVars, revisedVars>>

\* the visitor callback is entered for the text node at visitIndex
VisitText ==
    /\ pc = "visit"
    /\ visitIndex < Len(tree)
    /\ tree[visitIndex + 1].type = "text"
    /\ text' = tree[visitIndex + 1].value
    /\ newChildren' = <<>>
    /\ lastIndex' = 0
    /\ currentSearchIndex' = 0
    /\ pc' = "firstLoop"
    /\ UNCHANGED <<storeVars, pageVars, ioVars, tree, visitIndex, mentionableItems, plugin,
                   sortedItems, revisedVars>>

\* a node that is not of type 'text' is passed over; it has no children
VisitOther ==
    /\ pc = "visit"
    /\ visitIndex < Len(tree)
    /\ tree[visitIndex + 1].type # "text"
    /\ visitIndex' = visitIndex + 1
    /\ UNCHANGED <<storeVars, pageVars, ioVars, tree, pc, mentionableItems, plugin,
                   sortedItems, text, firstVars, revisedVars>>

\* no node is left to visit
VisitEnd ==
    /\ pc = "visit"
    /\ visitIndex >= Len(tree)
    /\ pc' = "done"
    /\ UNCHANGED <<storeVars, pageVars, ioVars, tree, visitIndex, mentionableItems, plugin,
                   sortedItems, text, firstVars, revisedVars>>

\* one iteration of the first while loop that finds an item
FirstLoopMatch ==
    /\ pc = "firstLoop"
    /\ FirstLoopContinues(currentSearchIndex, text)
    /\ FoundItem(text, sortedItems, currentSearchIndex) # 0
    /\ LET foundItem == sortedItems[FoundItem(text, sortedItems, currentSearchIndex)]
           matchStartIndex == currentSearchIndex
           matchLength == Len(foundItem.name)
           before == IF matchStartIndex > lastIndex
                     THEN Append(newChildren,
                                 TextNode(Substring(text, lastIndex, matchStartIndex)))
                     ELSE newChildren
       IN /\ newChildren' = Append(before, LinkNode(foundItem))
          /\ lastIndex' = matchStartIndex + matchLength
          /\ currentSearchIndex' = matchStartIndex + matchLength
    /\ UNCHANGED <<storeVars, pageVars, ioVars, tree, visitIndex, pc, mentionableItems, plugin,
                   sortedItems, text, revisedVars>>

\* one iteration of the first while loop that finds none
FirstLoopNoMatch ==
    /\ pc = "firstLoop"
    /\ FirstLoopContinues(currentSearchIndex, text)
    /\ FoundItem(text, sortedItems, currentSearchIndex) = 0
    /\ LET n == Len(newChildren)
           ch == CharAt(text, currentSearchIndex)
       IN newChildren' =
            IF n > 0 /\ newChildren[n].type = "text"
            THEN [newChildren EXCEPT ![n].value = @ \o ch]
            ELSE Append(newChildren, TextNode(ch))
    /\ currentSearchIndex' = currentSearchIndex + 1
    /\ lastIndex' = currentSearchIndex + 1
    /\ UNCHANGED <<storeVars, pageVars, ioVars, tree, visitIndex, pc, mentionableItems, plugin,
                   sortedItems, text, revisedVars>>

\* the first loop ends; the revised loop's locals are initialised
FirstLoopExit ==
    /\ pc = "firstLoop"
    /\ ~FirstLoopContinues(currentSearchIndex, text)
    /\ revisedNewChildren' = <<>>
    /\ currentTextIndex' = 0
    /\ pc' = "revisedLoop"
    /\ UNCHANGED <<storeVars, pageVars, ioVars, tree, visitIndex, mentionableItems, plugin,
                   sortedItems, text, firstVars>>

\* a cursor that moves by one character after a match (mutant)
AdvanceByOne(cur, item) == cur + 1

\* currentTextIndex += bestMatch.length
AdvancePastMatch(cur, item) == cur + Len(item.name)

\* one iteration of the revised loop with a bestMatch
RevisedLoopMatch ==
    /\ pc = "revisedLoop"
    /\ RevisedLoopContinues(currentTextIndex, text)
    /\ BestMatch(text, sortedItems, currentTextIndex) # 0
    /\ LET item == sortedItems[BestMatch(text, sortedItems, currentTextIndex)]
       IN /\ revisedNewChildren' = Push(revisedNewChildren, LinkNode(item))
          /\ currentTextIndex' = AdvancePastMatch(currentTextIndex, item)
    /\ UNCHANGED <<storeVars, pageVars, ioVars, tree, visitIndex, pc, mentionableItems, plugin,
                   sortedItems, text, firstVars>>

\* one iteration of the revised loop without a bestMatch
RevisedLoopPlain ==
    /\ pc = "revisedLoop"
    /\ RevisedLoopContinues(currentTextIndex, text)
    /\ BestMatch(text, sortedItems, currentTextIndex) = 0
    /\ LET plainTextSegment == PlainTextSegment(text, sortedItems, currentTextIndex)
       IN revisedNewChildren' =
            IF plainTextSegment # <<>>
            THEN Push(revisedNewChildren, TextNode(plainTextSegment))
            ELSE revisedNewChildren
    /\ currentTextIndex' = NextPotentialMatchStart(text, sortedItems, currentTextIndex)
    /\ UNCHANGED <<storeVars, pageVars, ioVars, tree, visitIndex, pc, mentionableItems, plugin,
                   sortedItems, text, firstVars>>

\* a visitor that goes on with the next sibling after a splice (mutant)
ResumeAtNext(index, n) == index + 1

\* return [SKIP, index + revisedNewChildren.length]
ResumeIndex(index, n) == index + n

\* the splice test that asks only for more than one span (mutant)
ShouldSpliceOnlyMulti(children, txt) == Len(children) > 1

\* the condition under which the node is replaced by the new children
ShouldSplice(children, txt) ==
    /\ Len(children) > 0
    /\ \/ Len(children) # 1
       \/ children[1].type # "text"
       \/ children[1].value # txt

\* parent.children.splice(index, 1, ...revisedNewChildren); return [SKIP, index + n]
Splice ==
    /\ pc = "revisedLoop"
    /\ ~RevisedLoopContinues(currentTextIndex, text)
    /\ ShouldSplice(revisedNewChildren, text)
    /\ tree' = SubSeq(tree, 1, visitIndex) \o revisedNewChildren
               \o SubSeq(tree, visitIndex + 2, Len(tree))
    /\ visitIndex' = ResumeIndex(visitIndex, Len(revisedNewChildren))
    /\ pc' = "visit"
    /\ UNCHANGED <<storeVars, pageVars, ioVars, mentionableItems, plugin, sortedItems, text,
                   firstVars, revisedVars>>

\* nothing to replace: the callback returns undefined and the visit goes on
KeepNode ==
    /\ pc = "revisedLoop"
    /\ ~RevisedLoopContinues(currentTextIndex, text)
    /\ ~ShouldSplice(revisedNewChildren, text)
    /\ visitIndex' = visitIndex + 1
    /\ pc' = "visit"
    /\ UNCHANGED <<storeVars, pageVars, ioVars, tree, mentionableItems, plugin, sortedItems, text,
                   firstVars, revisedVars>>

Next ==
    \/ ComputeMentionableItems
    \/ CreatePlugin
    \/ NoOpTransformer
    \/ Transformer
    \/ VisitText
    \/ VisitOther
    \/ VisitEnd
    \/ FirstLoopMatch
    \/ FirstLoopNoMatch
    \/ FirstLoopExit
    \/ RevisedLoopMatch
    \/ RevisedLoopPlain
    \/ Splice
    \/ KeepNode

Spec == Init /\ [][Next]_vars

LiveInit ==
    \/ \E txt \in Texts : InitWith("none", txt, <<>>, <<>>, Alone(txt))
    \/ \E txt \in Texts, c \in LiveCandidates :
           InitWith("b1", txt, c.profiles, c.notes, Alone(txt))
    \/ \E ex \in Examples :
           \/ InitWith("b1", ex.text, ex.profiles, ex.notes, Alone(ex.text))
           \/ InitWith("b1", ex.text, ex.profiles, ex.notes, Between(ex.text))

\* the render pass is synchronous code: once started it runs on while any of
\* its steps can be taken
FairSpec == LiveInit /\ [][Next]_vars /\ WF_vars(Next)

\* --------------------------------------------------- the rendered preview
\* the anchor element the preview renders for a link node: the component
\* reads the link's url as props.href and its data as node.data
Anchor(node) == [href |-> node.url, data |-> node.data, text |-> node.value]

\* a link to a web page, written as markdown elsewhere in the chapter
OrdinaryAnchor ==
    [href |-> <<"https://", "example.org">>, data |-> NoData, text |-> <<"A">>]

\* a link whose url the writer typed with the mention scheme; no data on it
TypedMentionAnchor ==
    [href |-> <<"mention://", "character", "/", <<"p", 1>>>>,
     data |-> NoData, text |-> <<"A">>]

RenderedAnchors ==
    {Anchor(tree[k]) : k \in {i \in 1..Len(tree) : tree[i].type = "link"}}
        \cup {OrdinaryAnchor, TypedMentionAnchor}

\* the test of the anchor component without its look at node.data (mutant)
IsMentionAnchorByHref(el) == el.href # <<>> /\ el.href[1] = "mention://"

\* props.href?.startsWith('mention://') && node?.data
IsMentionAnchor(el) ==
    /\ el.href # <<>>
    /\ el.href[1] = "mention://"
    /\ el.data # NoData

\* handleMentionClick: the message it hands to toast.success, and nothing else
handleMentionClick(type, id, name) ==
    <<"Clicked mention: ", name, " (", type, " ID: ", id, ")">>

\* a click on an anchor rendered as the mention span: its onClick runs
ClickMention ==
    /\ pc = "done"
    /\ Len(activated) < MaxClicks
    /\ \E el \in RenderedAnchors :
          /\ IsMentionAnchor(el)
          /\ activated' = Append(activated, el)
          /\ toasts' = Append(toasts, handleMentionClick(el.data.itemType,
                                                         el.data.itemId,
                                                         el.data.itemName))
    /\ UNCHANGED <<storeVars, ioVars, inputTree, tree, visitIndex, pc, mentionableItems,
                   plugin, sortedItems, text, firstVars, revisedVars>>

\* a click on an anchor rendered as the default <a>: no handler of the page
ClickLink ==
    /\ pc = "done"
    /\ Len(activated) < MaxClicks
    /\ \E el \in RenderedAnchors :
          /\ ~IsMentionAnchor(el)
          /\ activated' = Append(activated, el)
    /\ UNCHANGED <<storeVars, ioVars, inputTree, toasts, tree, visitIndex, pc,
                   mentionableItems, plugin, sortedItems, text, firstVars,
                   revisedVars>>

PageNext ==
    \/ Next
    \/ ClickMention
    \/ ClickLink

\* the render pass followed by clicks in the preview
PageSpec == LiveInit /\ [][PageNext]_vars

\* ------------------------------------------------------------ the store
\* Operations of useProjectStore on character profiles and book notes.  The
\* note operations have the code of the profile operations with the names
\* exchanged, so each action takes the kind of entity it works on.  An
\* operation runs up to its await, the backend answers, and the rest of the
\* operation runs on the answer.
Kinds == {"character", "note"}
Books == {"b1", "b2"}
NewNames == {<<"A">>}

renderVars == <<source, tree, visitIndex, pc, mentionableItems, plugin, sortedItems,
                text, firstVars, revisedVars, pageVars>>

\* state.characterProfilesByBookId or state.bookNotesByBookId
Slice(kind) ==
    IF kind = "character" THEN characterProfilesByBookId ELSE bookNotesByBookId

\* { ...map, [key]: val }
MapPut(map, key, val) ==
    [k \in (DOMAIN map) \cup {key} |-> IF k = key THEN val ELSE map[k]]

\* the calls in flight with one more, with one less, with one replaced
WithCall(c) == calls (+) SetToBag({c})
WithoutCall(c) == calls (-) SetToBag({c})
Answered(c, outcome, data) ==
    WithoutCall(c) (+) SetToBag({[c EXCEPT !.stage = "back", !.outcome = outcome,
                                           !.data = data]})

RECURSIVE FilterRows(_, _)
FilterRows(rows, keep) ==
    IF rows = <<>> THEN <<>>
    ELSE LET rest == FilterRows(SubSeq(rows, 1, Len(rows) - 1), keep)
             r == rows[Len(rows)]
         IN IF r \in keep THEN Append(rest, r) ELSE rest

RowsOf(rows) == {rows[k] : k \in 1..Len(rows)}

\* set() of one of the two slices
SetSlice(kind, map) ==
    /\ characterProfilesByBookId' =
         IF kind = "character" THEN map ELSE characterProfilesByBookId
    /\ bookNotesByBookId' = IF kind = "note" THEN map ELSE bookNotesByBookId

\* set() of one of the two loading flags
SetLoading(kind, v) ==
    /\ loadingProfiles' = IF kind = "character" THEN v ELSE loadingProfiles
    /\ loadingNotes' = IF kind = "note" THEN v ELSE loadingNotes

Call(op, kind, bookId, id, name) ==
    [op |-> op, kind |-> kind, bookId |-> bookId, id |-> id, name |-> name,
     stage |-> "sent", outcome |-> "none", data |-> <<>>]

\* the ids the page can name: those of the entities held in the store
KnownIds(kind) ==
    UNION { {r.id : r \in RowsOf(Slice(kind)[b])} : b \in DOMAIN Slice(kind) }

\* for (const bkId in profilesByBook) ... break: the first book holding the id
BookHolding(kind, id) ==
    LET holders == {b \in DOMAIN Slice(kind) :
                       \E r \in RowsOf(Slice(kind)[b]) : r.id = id}
    IN IF holders = {} THEN "undefined"
       ELSE IF "b1" \in holders THEN "b1" ELSE "b2"

\* fetchCharacterProfiles / fetchBookNotes up to the await
FetchStart(kind) ==
    /\ opsStarted < MaxOps
    /\ opsStarted' = opsStarted + 1
    /\ \E bookId \in Books, user \in BOOLEAN :
          IF ~user
          THEN /\ SetSlice(kind, MapPut(Slice(kind), bookId, <<>>))
               /\ SetLoading(kind, FALSE)
               /\ UNCHANGED <<calls, error>>
          ELSE /\ SetLoading(kind, TRUE)
               /\ error' = "null"
               /\ calls' = WithCall(Call("fetch", kind, bookId, <<>>, <<>>))
               /\ UNCHANGED <<characterProfilesByBookId, bookNotesByBookId>>
    /\ UNCHANGED <<currentBook, db, nextId, renderVars, saveVars>>

\* fetchCharacterProfiles / fetchBookNotes after the await
FetchFinish(kind) ==
    /\ \E c \in BagToSet(calls) :
          /\ c.op = "fetch"
          /\ c.kind = kind
          /\ c.stage = "back"
          /\ calls' = WithoutCall(c)
          /\ SetLoading(kind, FALSE)
          /\ IF c.outcome = "error"
             THEN /\ error' = "message"
                  /\ UNCHANGED <<characterProfilesByBookId, bookNotesByBookId>>
             ELSE /\ SetSlice(kind, MapPut(Slice(kind), c.bookId, c.data))
                  /\ UNCHANGED error
    /\ UNCHANGED <<currentBook, db, nextId, opsStarted, renderVars, saveVars>>

\* createCharacterProfile / createBookNote up to the await
CreateStart(kind) ==
    /\ opsStarted < MaxOps
    /\ opsStarted' = opsStarted + 1
    /\ \E bookId \in Books, name \in NewNames, user \in BOOLEAN :
          IF ~user
          THEN /\ error' = "message"
               /\ UNCHANGED <<calls, loadingProfiles, loadingNotes>>
          ELSE /\ SetLoading(kind, TRUE)
               /\ error' = "null"
               /\ calls' = WithCall(Call("create", kind, bookId, <<>>, name))
    /\ UNCHANGED <<currentBook, characterProfilesByBookId, bookNotesByBookId, db,
                   nextId, renderVars, saveVars>>

\* createCharacterProfile / createBookNote after the await
CreateFinish(kind) ==
    /\ \E c \in BagToSet(calls) :
          /\ c.op = "create"
          /\ c.kind = kind
          /\ c.stage = "back"
          /\ calls' = WithoutCall(c)
          /\ IF c.outcome = "error"
             THEN /\ error' = "message"
                  /\ SetLoading(kind, FALSE)
                  /\ UNCHANGED <<characterProfilesByBookId, bookNotesByBookId>>
             ELSE IF Len(c.data) > 0
             THEN /\ SetSlice(kind,
                        MapPut(Slice(kind), c.bookId,
                               Append(ListOf(Slice(kind), c.bookId),
                                      c.data[1])))
                  /\ SetLoading(kind, FALSE)
                  /\ UNCHANGED error
             ELSE UNCHANGED <<characterProfilesByBookId, bookNotesByBookId,
                              loadingProfiles, loadingNotes, error>>
    /\ UNCHANGED <<currentBook, db, nextId, opsStarted, renderVars, saveVars>>

\* updateCharacterProfile / updateBookNote up to the await
UpdateStart(kind) ==
    /\ opsStarted < MaxOps
    /\ opsStarted' = opsStarted + 1
    /\ \E id \in KnownIds(kind), name \in NewNames :
          calls' = WithCall(Call("update", kind, "undefined", id, name))
    /\ SetLoading(kind, TRUE)
    /\ error' = "null"
    /\ UNCHANGED <<currentBook, characterProfilesByBookId, bookNotesByBookId, db,
                   nextId, renderVars, saveVars>>

\* the list with the entry of the row's id replaced by the row
ReplaceById(rows, row) ==
    [k \in 1..Len(rows) |-> IF rows[k].id = row.id THEN row ELSE rows[k]]

\* updateCharacterProfile / updateBookNote after the await
UpdateFinish(kind) ==
    /\ \E c \in BagToSet(calls) :
          /\ c.op = "update"
          /\ c.kind = kind
          /\ c.stage = "back"
          /\ calls' = WithoutCall(c)
          /\ IF c.outcome = "error"
             THEN /\ error' = "message"
                  /\ SetLoading(kind, FALSE)
                  /\ UNCHANGED <<characterProfilesByBookId, bookNotesByBookId>>
             ELSE IF Len(c.data) > 0
             THEN LET updated == c.data[1]
                  IN /\ SetSlice(kind,
                           MapPut(Slice(kind), updated.book_id,
                                  ReplaceById(ListOf(Slice(kind), updated.book_id),
                                              updated)))
                     /\ SetLoading(kind, FALSE)
                     /\ UNCHANGED error
             ELSE UNCHANGED <<characterProfilesByBookId, bookNotesByBookId,
                              loadingProfiles, loadingNotes, error>>
    /\ UNCHANGED <<currentBook, db, nextId, opsStarted, renderVars, saveVars>>

\* deleteCharacterProfile / deleteBookNote up to the await
DeleteStart(kind) ==
    /\ opsStarted < MaxOps
    /\ opsStarted' = opsStarted + 1
    /\ \E id \in KnownIds(kind) :
          calls' = WithCall(Call("delete", kind, BookHolding(kind, id), id, <<>>))
    /\ SetLoading(kind, TRUE)
    /\ error' = "null"
    /\ UNCHANGED <<currentBook, characterProfilesByBookId, bookNotesByBookId, db,
                   nextId, renderVars, saveVars>>

\* deleteCharacterProfile / deleteBookNote after the await
DeleteFinish(kind) ==
    /\ \E c \in BagToSet(calls) :
          /\ c.op = "delete"
          /\ c.kind = kind
          /\ c.stage = "back"
          /\ calls' = WithoutCall(c)
          /\ SetLoading(kind, FALSE)
          /\ IF c.outcome = "error"
             THEN /\ error' = "message"
                  /\ UNCHANGED <<characterProfilesByBookId, bookNotesByBookId>>
             ELSE /\ UNCHANGED error
                  /\ IF c.bookId # "undefined"
                     THEN LET list == ListOf(Slice(kind), c.bookId)
                          IN SetSlice(kind,
                                MapPut(Slice(kind), c.bookId,
                                       FilterRows(list, {r \in RowsOf(list) :
                                                           r.id # c.id})))
                     ELSE UNCHANGED <<characterProfilesByBookId, bookNotesByBookId>>
    /\ UNCHANGED <<currentBook, db, nextId, opsStarted, renderVars, saveVars>>

\* setCurrentBook up to its await of supabase.auth.getUser()
SetCurrentBook ==
    /\ opsStarted < MaxOps
    /\ opsStarted' = opsStarted + 1
    /\ \E book \in Books \cup {"none"} :
          /\ currentBook' = book
          /\ characterProfilesByBookId' =
               IF book # "none" THEN characterProfilesByBookId ELSE <<>>
          /\ bookNotesByBookId' = IF book # "none" THEN bookNotesByBookId ELSE <<>>
          /\ calls' = IF book # "none"
                      THEN WithCall(Call("getUser", "none", book, <<>>, <<>>))
                      ELSE calls
    /\ UNCHANGED <<db, loadingProfiles, loadingNotes, error, nextId, renderVars, saveVars>>

\* setCurrentBook after getUser: with a user both fetches run up to their await
SetCurrentBookFetches ==
    /\ \E c \in BagToSet(calls), user \in BOOLEAN :
          /\ c.op = "getUser"
          /\ IF user
             THEN /\ calls' = WithoutCall(c)
                               (+) SetToBag({Call("fetch", "character", c.bookId, <<>>, <<>>),
                                             Call("fetch", "note", c.bookId, <<>>, <<>>)})
                  /\ loadingProfiles' = TRUE
                  /\ loadingNotes' = TRUE
                  /\ error' = "null"
             ELSE /\ calls' = WithoutCall(c)
                  /\ UNCHANGED <<loadingProfiles, loadingNotes, error>>
    /\ UNCHANGED <<currentBook, characterProfilesByBookId, bookNotesByBookId, db,
                   nextId, opsStarted, renderVars, saveVars>>

\* clearProjectData
ClearProjectData ==
    /\ opsStarted < MaxOps
    /\ opsStarted' = opsStarted + 1
    /\ currentBook' = "none"
    /\ characterProfilesByBookId' = <<>>
    /\ bookNotesByBookId' = <<>>
    /\ loadingProfiles' = FALSE
    /\ loadingNotes' = FALSE
    /\ error' = "null"
    /\ UNCHANGED <<db, calls, nextId, renderVars, saveVars>>

\* what the backend does with a request it answers without an error:
\* the new table, the rows it returns, and the next row number
Served(c) ==
    LET table == db[c.kind]
    IN IF c.op = "fetch"
       THEN [table |-> table, nextId |-> nextId,
             data |-> FilterRows(table, {r \in RowsOf(table) : r.book_id = c.bookId})]
       ELSE IF c.op = "create"
       THEN LET row == [id |-> <<"r", nextId>>, book_id |-> c.bookId, name |-> c.name]
            IN [table |-> Append(table, row), nextId |-> nextId + 1, data |-> <<row>>]
       ELSE IF c.op = "update"
       THEN LET new == [k \in 1..Len(table) |->
                          IF table[k].id = c.id
                          THEN [table[k] EXCEPT !.name = c.name] ELSE table[k]]
            IN [table |-> new, nextId |-> nextId,
                data |-> FilterRows(new, {r \in RowsOf(new) : r.id = c.id})]
       ELSE [table |-> FilterRows(table, {r \in RowsOf(table) : r.id # c.id}),
             nextId |-> nextId, data |-> <<>>]

\* the backend carries out a request and answers with the rows
BackendServes ==
    /\ \E c \in BagToSet(calls) :
          /\ c.stage = "sent"
          /\ c.op # "getUser"
          /\ LET res == Served(c)
             IN /\ db' = [db EXCEPT ![c.kind] = res.table]
                /\ nextId' = res.nextId
                /\ calls' = Answered(c, "ok", res.data)
    /\ UNCHANGED <<currentBook, characterProfilesByBookId, bookNotesByBookId,
                   loadingProfiles, loadingNotes, error, opsStarted, renderVars, saveVars>>

\* the backend answers an insert with neither an error nor a row
BackendReturnsNoRow ==
    /\ \E c \in BagToSet(calls) :
          /\ c.stage = "sent"
          /\ c.op = "create"
          /\ calls' = Answered(c, "ok", <<>>)
    /\ UNCHANGED <<currentBook, characterProfilesByBookId, bookNotesByBookId, db,
                   loadingProfiles, loadingNotes, error, nextId, opsStarted,
                   renderVars, saveVars>>

\* the backend answers a request with an error
BackendFails ==
    /\ \E c \in BagToSet(calls) :
          /\ c.stage = "sent"
          /\ c.op # "getUser"
          /\ calls' = Answered(c, "error", <<>>)
    /\ UNCHANGED <<currentBook, characterProfilesByBookId, bookNotesByBookId, db,
                   loadingProfiles, loadingNotes, error, nextId, opsStarted,
                   renderVars, saveVars>>

StoreNext ==
    \/ \E kind \in Kinds : FetchStart(kind)
    \/ \E kind \in Kinds : FetchFinish(kind)
    \/ \E kind \in Kinds : CreateStart(kind)
    \/ \E kind \in Kinds : CreateFinish(kind)
    \/ \E kind \in Kinds : UpdateStart(kind)
    \/ \E kind \in Kinds : UpdateFinish(kind)
    \/ \E kind \in Kinds : DeleteStart(kind)
    \/ \E kind \in Kinds : DeleteFinish(kind)
    \/ SetCurrentBook
    \/ SetCurrentBookFetches
    \/ ClearProjectData
    \/ BackendServes
    \/ BackendReturnsNoRow
    \/ BackendFails

\* the store as created, before the page of a book is rendered
StoreInit == InitWith("none", <<>>, <<>>, <<>>, Alone(<<>>))

StoreSpec == StoreInit /\ [][StoreNext]_vars

\* ------------------------------------------------------- saving a chapter
\* The editor, the debounced handleSaveContent and updateChapterContent.
Contents == {"a", "b", "c"}

\* clearTimeout that does nothing (mutant)
ClearTimeoutNoop(pending, id) == pending

\* if (timeout !== null) { clearTimeout(timeout); timeout = null; }
ClearTimeout(pending, id) == pending \ {id}

\* debounced(...args) of the debounced function the page holds: the new call,
\* the timers after clearTimeout and setTimeout, and the id kept in timeout
Debounced(args, seen, holder, held) ==
    LET id == Len(called) + 1
    IN /\ called' = Append(called, [inst |-> holder, args |-> args, seen |-> seen])
       /\ timers' = ClearTimeout(timers, held) \cup {id}
       /\ timeout' = id

\* setEditorContent, and the effect that calls debouncedSave(editorContent)
\* when the content differs from currentChapter.content
Type ==
    /\ Len(called) < MaxTyping
    /\ \E content \in Contents :
          /\ editorContent' = content
          /\ IF content # chapterContent
             THEN Debounced(content, chapterContent, inst, timeout)
             ELSE UNCHANGED <<called, timers, timeout>>
    /\ UNCHANGED <<storeVars, renderVars, backVars, chapterContent, isSaving, inst,
                   invoked, saves>>

\* a timer fires: func(...args), which is handleSaveContent up to the await
\* inside updateChapterContent; timeout keeps the id of the fired timer
TimerFires ==
    /\ \E id \in timers :
          /\ timers' = timers \ {id}
          /\ invoked' = Append(invoked, id)
          /\ IF called[id].args # called[id].seen
             THEN /\ isSaving' = TRUE
                  /\ error' = "null"
                  /\ saves' = saves (+) SetToBag({[content |-> called[id].args,
                                                   stage |-> "sent",
                                                   outcome |-> "none"]})
             ELSE UNCHANGED <<isSaving, error, saves>>
    /\ UNCHANGED <<storeVars, renderVars, db, calls, loadingProfiles, loadingNotes,
                   nextId, opsStarted, editorContent, chapterContent, timeout, inst,
                   called>>

\* the backend answers the update: with the row, without a row, or with an error
BackendAnswersSave ==
    /\ \E s \in BagToSet(saves), outcome \in {"ok", "empty", "error"} :
          /\ s.stage = "sent"
          /\ saves' = (saves (-) SetToBag({s}))
                        (+) SetToBag({[s EXCEPT !.stage = "back", !.outcome = outcome]})
    /\ UNCHANGED <<storeVars, renderVars, backVars, editorContent, chapterContent,
                   isSaving, timeout, timers, inst, called, invoked>>

\* updateChapterContent stores the row and returns; handleSaveContent goes on
\* with setIsSaving(false); currentChapter is a new object, so the page
\* makes a new debounced function and its effect runs again
SaveSucceeds ==
    /\ \E s \in BagToSet(saves) :
          /\ s.stage = "back"
          /\ s.outcome = "ok"
          /\ saves' = saves (-) SetToBag({s})
          /\ chapterContent' = s.content
          /\ isSaving' = FALSE
          /\ inst' = inst + 1
          /\ IF editorContent # s.content
             THEN Debounced(editorContent, s.content, inst + 1, 0)
             ELSE /\ timeout' = 0
                  /\ UNCHANGED <<called, timers>>
    /\ UNCHANGED <<storeVars, renderVars, backVars, editorContent, invoked>>

\* updateChapterContent catches, sets the error and throws again; the await
\* in handleSaveContent throws and the page's setIsSaving(false) is not reached
SaveFails ==
    /\ \E s \in BagToSet(saves) :
          /\ s.stage = "back"
          /\ s.outcome \in {"empty", "error"}
          /\ saves' = saves (-) SetToBag({s})
          /\ error' = "message"
    /\ UNCHANGED <<storeVars, renderVars, db, calls, loadingProfiles, loadingNotes,
                   nextId, opsStarted, editorContent, chapterContent, isSaving,
                   timeout, timers, inst, called, invoked>>

SaveNext ==
    \/ Type
    \/ TimerFires
    \/ BackendAnswersSave
    \/ SaveSucceeds
    \/ SaveFails

\* the page of a book with a chapter loaded in the editor
SaveInit == InitWith("b1", <<>>, <<>>, <<>>, Alone(<<>>))

SaveSpec == SaveInit /\ [][SaveNext]_vars

\* ------------------------------------------------- notions of the claims
\* letters, digits and underscore among the modelled characters
WordChars ==
    {"A", "E", "J", "M", "T", "a", "b", "d", "e", "h", "i", "l", "m", "n", "o",
     "r", "s", "t", "w", "x", "0", "1", "_"}

IsWordChar(c) == c \in WordChars

\* start boundary of an occurrence of name at position p (0-based) of txt
WordStartOk(txt, name, p) ==
    p = 0 \/ ~IsWordChar(txt[p]) \/ ~IsWordChar(name[1])

\* end boundary of an occurrence of name at position p (0-based) of txt
WordEndOk(txt, name, p) ==
    LET e == p + Len(name)
    IN e = Len(txt) \/ ~IsWordChar(txt[e + 1]) \/ ~IsWordChar(name[Len(name)])

RECURSIVE ConcatValues(_)
ConcatValues(spans) ==
    IF spans = <<>> THEN <<>>
    ELSE ConcatValues(SubSeq(spans, 1, Len(spans) - 1)) \o spans[Len(spans)].value

\* position in the text at which span k of spans starts
SpanStart(spans, k) == Len(ConcatValues(SubSeq(spans, 1, k - 1)))

\* the scan of the text node has run to its end
Scanned == plugin = "mentions" /\ pc = "done"

Mentions == {k \in 1..Len(revisedNewChildren) : revisedNewChildren[k].type = "link"}
Plains == {k \in 1..Len(revisedNewChildren) : revisedNewChildren[k].type = "text"}

\* the candidate of sortedItems a mention span points to
ItemOf(span) ==
    CHOOSE it \in {sortedItems[i] : i \in 1..Len(sortedItems)} :
        it.id = span.data.itemId /\ it.type = span.data.itemType

\* C1: once the scan is finished, the texts of its spans, concatenated in
\* order, are exactly the text that was scanned
C1_Reconstruction ==
    Scanned => ConcatValues(revisedNewChildren) = source

C1_Witness ==
    /\ Scanned
    /\ Mentions # {}
    /\ Plains # {}
    /\ Len(source) >= 3

\* C2: a mention span ends at the end of the text, or before a non-word
\* character, or its name ends in a non-word character
C2_EndBoundary ==
    Scanned =>
        \A k \in Mentions :
            WordEndOk(source, revisedNewChildren[k].data.itemName,
                      SpanStart(revisedNewChildren, k))

\* C3: a mention span starts at position 0, or after a non-word character,
\* or its name starts with a non-word character
C3_StartBoundary ==
    Scanned =>
        \A k \in Mentions :
            WordStartOk(source, revisedNewChildren[k].data.itemName,
                        SpanStart(revisedNewChildren, k))

\* candidates that occur literally at p and satisfy both word boundaries
ValidAt(p) ==
    {i \in 1..Len(sortedItems) :
        /\ OccursAt(source, sortedItems[i].name, p)
        /\ WordStartOk(source, sortedItems[i].name, p)
        /\ WordEndOk(source, sortedItems[i].name, p)}

\* C4: the candidate of every mention is one of the candidates that occur at
\* its position with both boundaries satisfied, and none of those is longer
C4_LongestMatch ==
    Scanned =>
        \A k \in Mentions :
            LET p == SpanStart(revisedNewChildren, k)
                name == revisedNewChildren[k].data.itemName
            IN /\ \E i \in ValidAt(p) : sortedItems[i].name = name
               /\ \A i \in ValidAt(p) : Len(sortedItems[i].name) <= Len(name)

\* C5: with an empty candidate list the render pass goes from the factory
\* straight to its end: the tree is the one it started with, its text node
\* whole and no link in it, and neither scan loop is entered
C5_NoCandidates ==
    (pc \notin {"render", "plugin"} /\ Len(mentionableItems) = 0) =>
        /\ plugin = "noop"
        /\ pc \in {"transform", "done"}
        /\ tree = inputTree
        /\ \E k \in 1..Len(tree) : tree[k] = TextNode(source)
        /\ \A k \in 1..Len(tree) : tree[k].type # "link"
        /\ revisedNewChildren = <<>>
        /\ newChildren = <<>>

C5_Witness ==
    /\ pc = "done"
    /\ plugin = "noop"
    /\ Len(mentionableItems) = 0
    /\ Len(source) = MaxLen

\* C6: no plain span of the finished scan covers a position at which a
\* candidate occurs literally with both word boundaries satisfied
C6_Completeness ==
    Scanned =>
        \A k \in Plains :
            LET p0 == SpanStart(revisedNewChildren, k)
            IN \A p \in p0..(p0 + Len(revisedNewChildren[k].value) - 1) :
                   ValidAt(p) = {}

C6_Witness ==
    /\ Scanned
    /\ source = <<"(">> \o Str_Elara \o <<")">>
    /\ Len(revisedNewChildren) = 3
    /\ revisedNewChildren[1] = TextNode(<<"(">>)
    /\ revisedNewChildren[2].type = "link"
    /\ revisedNewChildren[2].data.itemName = Str_Elara
    /\ revisedNewChildren[3] = TextNode(<<")">>)

\* C7: every mention span lies where its candidate's name occurs in the
\* text character for character, and the text "elara" yields no mention
C7_CaseSensitive ==
    Scanned =>
        /\ \A k \in Mentions :
               /\ OccursAt(source, revisedNewChildren[k].data.itemName,
                           SpanStart(revisedNewChildren, k))
               /\ revisedNewChildren[k].value = revisedNewChildren[k].data.itemName
        /\ (source = <<"e", "l", "a", "r", "a">>
              /\ \A i \in 1..Len(sortedItems) : sortedItems[i].name = Str_Elara)
           => Mentions = {}

\* a text holding a candidate's name in another case next to a real mention,
\* or the "elara" example itself
C7_Witness ==
    /\ Scanned
    /\ \/ /\ Mentions # {}
          /\ \E i \in 1..Len(sortedItems), p \in 0..Len(source) :
                 /\ OccursAtFold(source, sortedItems[i].name, p)
                 /\ ~OccursAt(source, sortedItems[i].name, p)
                 /\ \A j \in 1..Len(sortedItems) :
                        ~OccursAt(source, sortedItems[j].name, p)
       \/ /\ source = <<"e", "l", "a", "r", "a">>
          /\ revisedNewChildren = <<TextNode(source)>>

Str_Met == <<" ", "m", "e", "t", " ">>
Str_AtDawn == <<" ", "a", "t", " ", "d", "a", "w", "n", ".">>

\* C8: every span sits in the text at the place the spans before it leave
\* off, every mention names a candidate whose name occurs there, mentions
\* follow one another in text order with exactly the text between them as
\* plain spans, and the worked example gives Elara, " met ", Thorin, " at dawn."
C8_MentionOrder ==
    Scanned =>
        /\ \A k \in 1..Len(revisedNewChildren) :
               LET p == SpanStart(revisedNewChildren, k)
               IN revisedNewChildren[k].value =
                      Substring(source, p, p + Len(revisedNewChildren[k].value))
        /\ \A k \in Mentions :
               \E i \in 1..Len(sortedItems) :
                   /\ sortedItems[i].id = revisedNewChildren[k].data.itemId
                   /\ sortedItems[i].type = revisedNewChildren[k].data.itemType
                   /\ sortedItems[i].name = revisedNewChildren[k].value
                   /\ OccursAt(source, sortedItems[i].name,
                               SpanStart(revisedNewChildren, k))
        /\ \A k1 \in Mentions, k2 \in Mentions :
               k1 < k2 =>
                   LET e1 == SpanStart(revisedNewChildren, k1)
                                 + Len(revisedNewChildren[k1].value)
                       p2 == SpanStart(revisedNewChildren, k2)
                   IN /\ e1 <= p2
                      /\ ConcatValues(SubSeq(revisedNewChildren, k1 + 1, k2 - 1))
                             = Substring(source, e1, p2)
        /\ source = Str_Elara \o Str_Met \o Str_Thorin \o Str_AtDawn =>
               revisedNewChildren =
                   << LinkNode([id |-> <<"p", 1>>, name |-> Str_Elara, type |-> "character"]),
                      TextNode(Str_Met),
                      LinkNode([id |-> <<"p", 2>>, name |-> Str_Thorin, type |-> "character"]),
                      TextNode(Str_AtDawn) >>

C8_Witness ==
    /\ Scanned
    /\ source = Str_Elara \o Str_Met \o Str_Thorin \o Str_AtDawn
    /\ Cardinality(Mentions) = 2
    /\ Len(revisedNewChildren) = 4

\* a name with no character other than whitespace
Blank(name) == \A i \in 1..Len(name) : IsWhitespace(name[i])

SeqToSet(seq) == {seq[i] : i \in 1..Len(seq)}

\* the entities of the current book whose name is not blank, as candidates
ExpectedCandidates ==
    {[id |-> e.id, name |-> e.name, type |-> "character"] :
        e \in {x \in SeqToSet(ListOf(characterProfilesByBookId, currentBook)) :
                 ~Blank(x.name)}}
    \cup
    {[id |-> e.id, name |-> e.name, type |-> "note"] :
        e \in {x \in SeqToSet(ListOf(bookNotesByBookId, currentBook)) :
                 ~Blank(x.name)}}

\* C9: the candidate index holds exactly the characters and notes of the
\* current book whose name is not blank, each once, and no candidate with an
\* empty name is handed to the scanner
C9_IndexFilter ==
    pc # "render" =>
        /\ SeqToSet(mentionableItems) = ExpectedCandidates
        /\ Len(mentionableItems) = Cardinality(ExpectedCandidates)
        /\ \A i \in 1..Len(mentionableItems) : mentionableItems[i].name # <<>>
        /\ plugin = "mentions" =>
               /\ SeqToSet(sortedItems) = ExpectedCandidates
               /\ \A i \in 1..Len(sortedItems) : sortedItems[i].name # <<>>

C9_Witness ==
    /\ pc = "done"
    /\ \E e \in SeqToSet(ListOf(characterProfilesByBookId, currentBook)) :
           e.name = <<" ">>
    /\ \E e \in SeqToSet(ListOf(bookNotesByBookId, currentBook)) : e.name = <<>>
    /\ Len(mentionableItems) = 1

\* place of a candidate in the input: characters in list order, then notes
InputRank(item) ==
    LET profs == ListOf(characterProfilesByBookId, currentBook)
        notes == ListOf(bookNotesByBookId, currentBook)
    IN IF item.type = "character"
       THEN CHOOSE k \in 1..Len(profs) : profs[k].id = item.id
       ELSE Len(profs) + (CHOOSE k \in 1..Len(notes) : notes[k].id = item.id)

LengthDescStable(items) ==
    \A i \in 1..Len(items), j \in 1..Len(items) :
        i < j =>
            /\ Len(items[i].name) >= Len(items[j].name)
            /\ Len(items[i].name) = Len(items[j].name)
                   => InputRank(items[i]) < InputRank(items[j])

\* C10: the candidate index, and the plugin's sorted copy of it, are in
\* descending order of name length, and candidates of equal length are in
\* input order (characters in list order, then notes in list order)
C10_IndexOrder ==
    /\ pc # "render" => LengthDescStable(mentionableItems)
    /\ plugin = "mentions" => LengthDescStable(sortedItems)

\* a short character listed before a longer one, and a note as long as it
C10_Witness ==
    /\ plugin = "mentions"
    /\ Len(sortedItems) = 3
    /\ sortedItems[1].type = "character"
    /\ sortedItems[1].id = <<"p", 2>>
    /\ Len(sortedItems[1].name) > Len(sortedItems[2].name)
    /\ sortedItems[2].type = "character"
    /\ sortedItems[3].type = "note"
    /\ Len(sortedItems[2].name) = Len(sortedItems[3].name)

\* all orderings of a list
Perms(seq) ==
    LET n == Len(seq)
    IN {[i \in 1..n |-> seq[f[i]]] :
           f \in {g \in [1..n -> 1..n] : \A a, b \in 1..n : a # b => g[a] # g[b]}}

Names(items) == {items[i].name : i \in 1..Len(items)}

\* C11: whatever the order in which the current book's profiles and notes
\* are listed, the index built from them has the same candidates and the same
\* sequence of name lengths as the index in use, so two builds differ at most
\* in the order of names of equal length; and sorting the built index again,
\* as the plugin does, gives the same index
C11_IndexIdempotent ==
    (pc # "render" /\ currentBook # "none") =>
        /\ \A ps \in Perms(ListOf(characterProfilesByBookId, currentBook)),
              ns \in Perms(ListOf(bookNotesByBookId, currentBook)) :
               LET other == MentionableItems(
                                currentBook,
                                [characterProfilesByBookId EXCEPT ![currentBook] = ps],
                                [bookNotesByBookId EXCEPT ![currentBook] = ns])
               IN /\ SeqToSet(other) = SeqToSet(mentionableItems)
                  /\ Names(other) = Names(mentionableItems)
                  /\ Len(other) = Len(mentionableItems)
                  /\ \A i \in 1..Len(other) :
                         Len(other[i].name) = Len(mentionableItems[i].name)
        /\ SortByLengthDesc(mentionableItems) = mentionableItems
        /\ plugin = "mentions" => sortedItems = mentionableItems

\* two profiles of different name lengths listed shortest first, and a note
C11_Witness ==
    /\ plugin = "mentions"
    /\ Len(mentionableItems) = 3
    /\ mentionableItems #
           CollectItems(currentBook, characterProfilesByBookId, bookNotesByBookId)
    /\ \E i, j \in 1..3 :
           i < j /\ Len(mentionableItems[i].name) = Len(mentionableItems[j].name)

\* C12: once the scan of a text node has started, the render pass reaches
\* its end, whatever the text and the candidates
C12_ScanTerminates == (pc = "firstLoop") ~> (pc = "done")

\* a text without word characters that is shorter than every candidate name
C12_Witness ==
    /\ Scanned
    /\ source = <<" ">>
    /\ Len(sortedItems) > 0
    /\ \A i \in 1..Len(sortedItems) : Len(sortedItems[i].name) > Len(source)

\* C13: the scan of the empty text comes to its end, and it ends with no
\* span or with one empty plain span, with no mention in the tree
C13_EmptyText ==
    /\ [](( pc = "done" /\ plugin = "mentions" /\ source = <<>> ) =>
            /\ revisedNewChildren \in {<<>>, <<TextNode(<<>>)>>}
            /\ \A k \in 1..Len(tree) : tree[k].type # "link")
    /\ (pc = "firstLoop" /\ source = <<>>) ~> (pc = "done")

C13_Witness ==
    /\ Scanned
    /\ source = <<>>
    /\ Len(sortedItems) > 0
    /\ revisedNewChildren = <<>>

\* the candidates of the current book with the id and kind a span carries
TargetsOf(span) ==
    {c \in ExpectedCandidates :
        c.id = span.data.itemId /\ c.type = span.data.itemType}

\* C14: every mention span points to exactly one candidate of the index, the
\* one the scan accepted at the span's position; it carries that candidate's
\* kind, id and name, its text is the name and the slice of the input it
\* stands for, and its title is "View <kind>: <name>"
C14_MentionContent ==
    Scanned =>
        \A k \in Mentions :
            LET span == revisedNewChildren[k]
                p == SpanStart(revisedNewChildren, k)
            IN /\ Cardinality(TargetsOf(span)) = 1
               /\ span.data.mention = TRUE
               /\ \A c \in TargetsOf(span) :
                      /\ c = sortedItems[BestMatch(source, sortedItems, p)]
                      /\ span.data.itemName = c.name
                      /\ span.value = c.name
                      /\ span.value = Substring(source, p, p + Len(c.name))
                      /\ span.title = <<"View ", c.type, ": ", c.name>>

C14_Witness ==
    /\ Scanned
    /\ \E k \in Mentions : revisedNewChildren[k].data.itemType = "character"
    /\ \E k \in Mentions :
           /\ revisedNewChildren[k].data.itemType = "note"
           /\ revisedNewChildren[k].title = <<"View ", "note", ": ", <<"a">> >>

\* C15: a mention never points to a candidate when another candidate of the
\* same name comes before it in the index, that is, is a character while it
\* is a note, or is listed earlier among entities of the same kind
C15_IdenticalNames ==
    Scanned =>
        \A k \in Mentions :
            \A t \in TargetsOf(revisedNewChildren[k]) :
                \A c \in ExpectedCandidates :
                    (c.name = t.name /\ c # t) =>
                        /\ InputRank(t) < InputRank(c)
                        /\ \E i, j \in 1..Len(sortedItems) :
                               i < j /\ sortedItems[i] = t /\ sortedItems[j] = c

\* a mention of a name that a character and a note share
C15_Witness ==
    /\ Scanned
    /\ \E k \in Mentions :
           /\ revisedNewChildren[k].data.itemType = "character"
           /\ \E c \in ExpectedCandidates :
                  /\ c.type = "note"
                  /\ c.name = revisedNewChildren[k].data.itemName

\* C17: where a span starts at a position at which some candidate occurs but
\* fails a word boundary while another candidate occurs there with both
\* boundaries satisfied, the span is a mention of a candidate whose
\* boundaries are satisfied
C17_ShorterFallback ==
    Scanned =>
        \A k \in 1..Len(revisedNewChildren) :
            LET p == SpanStart(revisedNewChildren, k)
                failing == {i \in 1..Len(sortedItems) :
                               /\ OccursAt(source, sortedItems[i].name, p)
                               /\ i \notin ValidAt(p)}
            IN (failing # {} /\ ValidAt(p) # {}) =>
                   /\ revisedNewChildren[k].type = "link"
                   /\ \E i \in ValidAt(p) :
                          sortedItems[i].name = revisedNewChildren[k].data.itemName

\* C18: the test the boundary checks apply to the character before the cursor
\* and to every other character of the scanned text is true exactly for
\* letters, digits and the underscore
C18_WordCharTest ==
    pc \in {"firstLoop", "revisedLoop"} =>
        \A i \in 0..(Len(text) - 1) :
            RegexBackslashW(CharAt(text, i)) <=> IsWordChar(text[i + 1])

\* C20: every iteration of either loop moves its cursor forward and not
\* beyond the end of the text, and an iteration of the revised loop that
\* emits a mention moves the cursor from the start of an occurrence of the
\* mentioned name to its end, so that the next span starts after the mention
C20_CursorProgress ==
    [][ /\ (pc = "firstLoop" /\ pc' = "firstLoop") =>
              /\ currentSearchIndex' > currentSearchIndex
              /\ currentSearchIndex' <= Len(text)
        /\ (pc = "revisedLoop" /\ pc' = "revisedLoop") =>
              /\ currentTextIndex' > currentTextIndex
              /\ currentTextIndex' <= Len(text)
              /\ Len(revisedNewChildren') = Len(revisedNewChildren) + 1
              /\ LET last == revisedNewChildren'[Len(revisedNewChildren')]
                 IN /\ OccursAt(text, last.value, currentTextIndex)
                    /\ currentTextIndex' = currentTextIndex + Len(last.value)
                    /\ SpanStart(revisedNewChildren', Len(revisedNewChildren'))
                           = currentTextIndex
      ]_vars

\* a mention has just been emitted and another candidate's name occurs
\* strictly inside it
C20_Witness ==
    /\ pc = "revisedLoop"
    /\ revisedNewChildren # <<>>
    /\ LET last == revisedNewChildren[Len(revisedNewChildren)]
       IN /\ last.type = "link"
          /\ \E i \in 1..Len(sortedItems) :
                 \E q \in (currentTextIndex - Len(last.value) + 1)..(currentTextIndex - 1) :
                     OccursAt(text, sortedItems[i].name, q)

\* the place of the text node among the children handed to the transformer
TextIndex == CHOOSE k \in 1..Len(inputTree) : inputTree[k].type = "text"

\* the children before and after the text node, as handed to the transformer
SiblingsBefore == SubSeq(inputTree, 1, TextIndex - 1)
SiblingsAfter == SubSeq(inputTree, TextIndex + 1, Len(inputTree))

\* C19: after the scan of a text node, when the spans are a single plain
\* span equal to the text, or none at all, the children are the ones handed
\* in, text node included; when a span is a mention the text node is replaced
\* by the spans in order, between the same siblings
C19_NoMentionsSignal ==
    Scanned =>
        /\ (revisedNewChildren = <<>> \/ revisedNewChildren = <<TextNode(text)>>)
               => tree = inputTree
        /\ Mentions # {}
               => tree = SiblingsBefore \o revisedNewChildren \o SiblingsAfter

\* a text between two siblings that is one mention from end to end, and the
\* mention stands between the siblings
C19_Witness ==
    /\ Scanned
    /\ Len(inputTree) = 3
    /\ Len(revisedNewChildren) = 1
    /\ Mentions = {1}
    /\ tree[2].type = "link"

\* a text between two siblings with no mention in it: the node is kept
C19_WitnessKept ==
    /\ Scanned
    /\ Len(inputTree) = 3
    /\ revisedNewChildren = <<TextNode(text)>>
    /\ text # <<>>
    /\ tree = inputTree

\* the anchors that stand for the mention spans of the scan
MentionElements == {Anchor(revisedNewChildren[k]) : k \in Mentions}

\* C16: a click on a rendered mention adds exactly one call of the mention
\* callback, with the kind, id and name of the candidate the span came from,
\* visible as its one toast; a click on any other link adds none; and no
\* click changes the store, the chapter text or the tree
C16_MentionActivation ==
    [][ activated' # activated =>
          \E el \in RenderedAnchors :
             /\ activated' = Append(activated, el)
             /\ IF el \in MentionElements
                   THEN \E c \in ExpectedCandidates :
                          /\ c.id = el.data.itemId
                          /\ c.type = el.data.itemType
                          /\ c.name = el.text
                          /\ toasts' = Append(toasts,
                                 <<"Clicked mention: ", c.name, " (", c.type,
                                   " ID: ", c.id, ")">>)
                   ELSE toasts' = toasts
             /\ UNCHANGED <<storeVars, ioVars, inputTree, tree, mentionableItems,
                            sortedItems, revisedVars>>
      ]_vars

\* a mention was clicked and then a link typed with the mention scheme: one
\* toast only
C16_Witness ==
    /\ Len(activated) = 2
    /\ activated[1] \in MentionElements
    /\ activated[2] = TypedMentionAnchor
    /\ Len(toasts) = 1

\* C21: in every state of the revised scan loop the texts of the spans
\* pushed so far, concatenated, are the text from position 0 up to the cursor
C21_PrefixInvariant ==
    pc = "revisedLoop" =>
        /\ currentTextIndex <= Len(text)
        /\ ConcatValues(revisedNewChildren) = SubSeq(text, 1, currentTextIndex)

\* in the middle of a text, after a mention and a plain span were pushed
C21_Witness ==
    /\ pc = "revisedLoop"
    /\ currentTextIndex > 0
    /\ currentTextIndex < Len(text)
    /\ Mentions # {}
    /\ Plains # {}

\* C22: the spans of the scan hold no empty plain span, and a plain span has
\* a mention span, or nothing, on either side of it: no two plain spans touch
C22_MaximalPlainSpans ==
    pc \in {"revisedLoop", "visit", "done"} =>
        \A k \in Plains :
            /\ revisedNewChildren[k].value # <<>>
            /\ k > 1 => revisedNewChildren[k - 1].type = "link"
            /\ k < Len(revisedNewChildren) => revisedNewChildren[k + 1].type = "link"

\* a plain span that stands between two mentions
C22_Witness ==
    /\ Scanned
    /\ \E k \in Plains : k > 1 /\ k < Len(revisedNewChildren)

\* the span sequence as a function of the text and the sorted list alone
RECURSIVE SpansFrom(_, _, _)
SpansFrom(txt, items, cur) ==
    IF cur >= Len(txt) THEN <<>>
    ELSE LET b == BestMatch(txt, items, cur)
             nxt == NextPotentialMatchStart(txt, items, cur)
         IN IF b # 0
            THEN <<LinkNode(items[b])>> \o SpansFrom(txt, items, cur + Len(items[b].name))
            ELSE <<TextNode(SubSeq(txt, cur + 1, nxt))>> \o SpansFrom(txt, items, nxt)

NodesAhead == SubSeq(tree, visitIndex + 1, Len(tree))

\* C26: the nodes ahead of the visitor are always nodes of the tree as it
\* was handed in, never a node the pass put there; the callback is entered
\* only for the text node of that tree, before any splice; and the transform
\* reaches its end
C26_NoRescan ==
    /\ [](pc = "visit" =>
            /\ visitIndex <= Len(tree)
            /\ NodesAhead = SubSeq(inputTree, Len(inputTree) - Len(NodesAhead) + 1,
                                   Len(inputTree))
            /\ \A k \in 1..Len(NodesAhead) : NodesAhead[k].type # "link")
    /\ [][ (pc = "visit" /\ pc' = "firstLoop") =>
              /\ tree = inputTree
              /\ visitIndex + 1 = TextIndex
         ]_vars
    /\ (pc = "transform") ~> (pc = "done")

\* the visitor stands behind the spans it put in, a mention among them, with
\* a sibling still ahead
C26_Witness ==
    /\ pc = "visit"
    /\ tree # inputTree
    /\ Len(revisedNewChildren) >= 2
    /\ Mentions # {}
    /\ visitIndex = 1 + Len(revisedNewChildren)
    /\ visitIndex < Len(tree)

\* the value the mentionableItems memo has for the store as it is now
IndexNow == MentionableItems(currentBook, characterProfilesByBookId, bookNotesByBookId)

\* the entities the store holds under the current book, by kind of candidate
HeldFor(type) ==
    IF currentBook = "none" THEN {}
    ELSE RowsOf(ListOf(Slice(type), currentBook))

\* C24: whatever operations ran on the store, every candidate of the index
\* is an entity held under the current book's id and belonging to that book,
\* and the index is empty when no book is current
C24_CurrentBookScoping ==
    /\ currentBook = "none" => IndexNow = <<>>
    /\ \A k \in 1..Len(IndexNow) :
          \E r \in HeldFor(IndexNow[k].type) :
             /\ r.id = IndexNow[k].id
             /\ r.name = IndexNow[k].name
             /\ r.book_id = currentBook

\* the first book is current and indexed while the store also holds the
\* entities of the second book
C24_Witness ==
    /\ currentBook = "b1"
    /\ Len(IndexNow) = 2
    /\ ListOf(characterProfilesByBookId, "b2") # <<>>
    /\ ListOf(bookNotesByBookId, "b2") # <<>>
    /\ opsStarted = 2

\* no list of the store holds two entries with the same id
NoTwin(rows) == \A i, j \in 1..Len(rows) : rows[i].id = rows[j].id => i = j

\* C25: under every interleaving of fetches and creates no list of the
\* store holds an id twice, and the index holds no candidate twice
C25_Deduplicated ==
    /\ \A kind \in Kinds : \A b \in DOMAIN Slice(kind) : NoTwin(Slice(kind)[b])
    /\ \A i, j \in 1..Len(IndexNow) :
          (IndexNow[i].id = IndexNow[j].id /\ IndexNow[i].type = IndexNow[j].type)
              => i = j

\* an operation of the kind is between its await and its end
InFlight(kind) ==
    \E c \in BagToSet(calls) : c.kind = kind /\ c.op # "getUser"

\* C28: when no operation on profiles is in flight loadingProfiles is false,
\* and likewise loadingNotes for notes, whatever the backend answered
C28_LoadingReleased ==
    /\ ~InFlight("character") => ~loadingProfiles
    /\ ~InFlight("note") => ~loadingNotes

\* C27: when no save is at its await, the saving indicator is off
C27_SavingCleared == saves = EmptyBag => ~isSaving

\* the calls made on one debounced function
CallsOf(i) == {k \in 1..Len(called) : called[k].inst = i}

\* C29: a debounced function has at most one timer pending; a call after
\* which the same function was called again is no longer pending; the last
\* call of a function is pending or has fired; no timer fires twice; and a
\* timer that fires runs the function with the arguments of the last call
C29_Debounce ==
    /\ [](/\ \A i \in 1..inst : Cardinality(timers \cap CallsOf(i)) <= 1
          /\ \A k \in 1..Len(called) :
                IF \E j \in CallsOf(called[k].inst) : j > k
                THEN k \notin timers
                ELSE k \in timers \/ \E n \in 1..Len(invoked) : invoked[n] = k
          /\ \A m, n \in 1..Len(invoked) : invoked[m] = invoked[n] => m = n)
    /\ [][ invoked' # invoked =>
              \E id \in timers :
                 /\ invoked' = Append(invoked, id)
                 /\ \A j \in CallsOf(called[id].inst) : j <= id
         ]_vars

\* a burst of two calls on one function, and the function ran once, with the
\* arguments of the second call
C29_Witness ==
    /\ Len(called) = 2
    /\ called[1].inst = called[2].inst
    /\ called[1].args # called[2].args
    /\ invoked = <<2>>
    /\ timers = {}

====
